---- MODULE Spec2Model ----
(***************************************************************************)
(* Model of output_td.go: the TDOutput facade (Start / Emit / Stop /       *)
(* WaitForShutdown), the emitter goroutine, the spooler daemon and the     *)
(* per-destination spoolers with their tickers and journals.               *)
(*                                                                         *)
(* Strings are sequences of byte values, as normalizeDatabaseName works on *)
(* []byte.  Goroutines interleave one statement (or one critical section   *)
(* step) at a time; memory is sequentially consistent.  A panic that no    *)
(* deferred recover() catches ends the process: crashed = TRUE disables    *)
(* every action.                                                           *)
(***************************************************************************)
EXTENDS Integers, Sequences, FiniteSets, TLC

\* ---------------------------------------------------------------- bounds
\* Number of record sets the callers of Emit() submit in all.
MaxRecordSets == 2
\* Number of goroutines that call Emit().
NumProducers == 1
\* Number of goroutines that call Stop().
NumStoppers == 2

Producers == 1..NumProducers
Stoppers == 1..NumStoppers

\* ---------------------------------------------------------------- strings
Star == <<42>>                \* "*"
Dot == <<46>>                 \* "."
NameDb == <<100, 98>>         \* "db"
TagX == <<120>>               \* "x"
TagUpperX == <<88>>           \* "X"
TagAB == <<97, 46, 98>>       \* "a.b"
TagEmpty == <<>>              \* ""

\* Tags of the record sets the producers submit.
Tags == {TagX, TagUpperX, TagAB, TagEmpty}

\* (databaseName, tableName) settings NewTDOutput may be given.
CfgDbStar == [databaseName |-> NameDb, tableName |-> Star]
CfgStarStar == [databaseName |-> Star, tableName |-> Star]
Configs == {CfgDbStar, CfgStarStar}

\* ---------------------------------------------------------------- naming
Underscores(n) == [i \in 1..n |-> 95]

\* bytes.ToLower on one byte.
ToLower(c) == IF c >= 65 /\ c <= 90 THEN c + 32 ELSE c

\* The character test of normalizeDatabaseName, as written in the source.
IsValidChar(c) == (c >= 97 \/ c <= 122) \/ (c >= 48 /\ c <= 57) \/ c = 95

normalizeDatabaseName(name) ==
  IF Len(name) = 0
  THEN [name |-> <<>>, err |-> TRUE]
  ELSE LET padded == IF Len(name) < 3
                     THEN name \o Underscores(3 - Len(name))
                     ELSE name
           cut == IF 255 < Len(padded)
                  THEN SubSeq(padded, 1, 253) \o Underscores(2)
                  ELSE padded
       IN [name |-> [i \in 1..Len(cut) |->
                       IF ~IsValidChar(ToLower(cut[i])) THEN 95
                       ELSE ToLower(cut[i])],
           err |-> FALSE]

normalizeTableName(name) == normalizeDatabaseName(name)

\* Mutant: the tag is split at its last ".".
LastDot(tag) ==
  IF \E i \in 1..Len(tag) : tag[i] = 46
  THEN CHOOSE i \in 1..Len(tag) :
         tag[i] = 46 /\ \A j \in (i + 1)..Len(tag) : tag[j] # 46
  ELSE 0

\* Index of the first "." of tag, 0 when there is none.
FirstDot(tag) ==
  IF \E i \in 1..Len(tag) : tag[i] = 46
  THEN CHOOSE i \in 1..Len(tag) :
         tag[i] = 46 /\ \A j \in 1..(i - 1) : tag[j] # 46
  ELSE 0

\* strings.SplitN(tag, ".", 2)
SplitN2(tag) ==
  IF FirstDot(tag) = 0
  THEN <<tag>>
  ELSE <<SubSeq(tag, 1, FirstDot(tag) - 1),
         SubSeq(tag, FirstDot(tag) + 1, Len(tag))>>

\* Mutant: with both names wildcards the tag is not split.
ResolveNamesNoSplit(conf, tag) ==
  [databaseName |-> IF conf.databaseName = Star /\ conf.tableName # Star
                    THEN tag ELSE conf.databaseName,
   tableName |-> IF conf.tableName = Star THEN tag ELSE conf.tableName]

\* The (databaseName, tableName) pair of getSpooler before normalization.
ResolveNames(conf, tag) ==
  IF conf.databaseName = Star
  THEN IF conf.tableName = Star
       THEN LET c == SplitN2(tag)
            IN IF Len(c) = 1
               THEN [databaseName |-> conf.databaseName, tableName |-> c[1]]
               ELSE [databaseName |-> c[1], tableName |-> c[2]]
       ELSE [databaseName |-> tag, tableName |-> conf.tableName]
  ELSE IF conf.tableName = Star
       THEN [databaseName |-> conf.databaseName, tableName |-> tag]
       ELSE [databaseName |-> conf.databaseName, tableName |-> conf.tableName]

\* getSpooler up to the call of spawnSpooler: the key, or the error.
GetSpoolerKey(conf, tag) ==
  LET raw == ResolveNames(conf, tag)
      db == normalizeDatabaseName(raw.databaseName)
      tb == normalizeTableName(raw.tableName)
  IN IF db.err \/ tb.err
     THEN [key |-> <<>>, err |-> TRUE]
     ELSE [key |-> db.name \o Dot \o tb.name, err |-> FALSE]

\* ---------------------------------------------------------------- state
VARIABLES
  cfg,            \* TDOutput.databaseName / TDOutput.tableName
  journalGroup,   \* TDOutput.journalGroup: number of Dispose() calls on it
  startPc,        \* position of the goroutine calling NewTDOutput(), Start()
  outputWg,       \* TDOutput.wg counter
  isShuttingDown, \* TDOutput.isShuttingDown (FALSE = 0, TRUE = 1)
  chanClosed,     \* TDOutput.emitterChan has been closed
  closes,         \* number of close(emitterChan) executed
  spoolerDaemon,  \* TDOutput.spoolerDaemon: "nil" or "daemon"
  daemonChan,     \* number of signals buffered in daemon.shutdownChan
  daemonPc,       \* position of tdOutputSpoolerDaemon.handle / cleanup
  visited,        \* spoolers the range loop of daemon.cleanup has passed
  spoolersMtx,    \* holder of daemon.spoolersMtx: "free", "emitter", "daemon"
  spoolers,       \* daemon.spoolers: key -> spooler
  objs,           \* the tdOutputSpooler objects, in order of creation
  daemonWg,       \* tdOutputSpoolerDaemon.wg counter
  journals,       \* the journals handed out by journalGroup.GetJournal
  emitterPc,      \* position of the emitter goroutine
  cur,            \* recordSet (and spooler) of the emitter's loop body
  received,       \* number of record sets the emitter has received
  processed,      \* number of loop bodies of the emitter that have ended
  prodPc,         \* position of each goroutine calling Emit()
  prodLeft,       \* record sets each Emit() call has still to send
  prodResult,     \* what each Emit() call gave its caller
  stopPc,         \* position of each goroutine calling Stop()
  wfsPc,          \* position of the goroutine calling WaitForShutdown()
  crashed         \* an unrecovered panic ended the process

vars ==
  << cfg, journalGroup, startPc, outputWg, isShuttingDown, chanClosed, closes,
     spoolerDaemon,
     daemonChan, daemonPc, visited, spoolersMtx, spoolers, objs, daemonWg,
     journals, emitterPc, cur, received, processed, prodPc, prodLeft,
     prodResult, stopPc, wfsPc, crashed >>

newVars == << cfg, journalGroup >>
outputVars == << outputWg, isShuttingDown, chanClosed, closes, spoolerDaemon >>
startVars == << startPc >>
daemonVars == << daemonChan, daemonPc, visited, daemonWg >>
registryVars == << spoolersMtx, spoolers >>
emitterVars == << emitterPc, cur, received, processed >>
prodVars == << prodPc, prodLeft, prodResult >>
callerVars == << stopPc, wfsPc >>

\* The emitter holds no record set.
NoRecordSet == [seq |-> 0, tag |-> <<>>, sp |-> 0]

\* The chunk handle a flush handler invocation works on.
NoHandle ==
  [active |-> FALSE, chunk |-> <<>>, uploaded |-> FALSE, uploadOk |-> FALSE,
   disposed |-> 0, returned |-> FALSE, result |-> FALSE]

\* newTDOutputSpooler
newTDOutputSpooler(key) ==
  [key |-> key,
   pc |-> "new",
   started |-> 0,
   isShuttingDown |-> FALSE,
   shutdownChan |-> 0,
   tick |-> FALSE,
   tickerStopped |-> FALSE,
   flushes |-> 0,
   todo |-> <<>>,
   handle |-> NoHandle,
   err |-> FALSE]

\* journalGroup.GetJournal(key): the journal of key, created on first use.
GetJournal(key) ==
  IF key \in DOMAIN journals
  THEN journals
  ELSE (key :> [chunks |-> <<>>, disposed |-> 0]) @@ journals

SpoolerIds == 1..Len(objs)

\* The TDOutput NewTDOutput returns, but for its two names.
InitOutput ==
  /\ journalGroup = [disposed |-> 0]
  /\ startPc = "new"
  /\ outputWg = 0
  /\ isShuttingDown = FALSE
  /\ chanClosed = FALSE
  /\ closes = 0
  /\ spoolerDaemon = "nil"
  /\ daemonChan = 0
  /\ daemonPc = "none"
  /\ visited = {}
  /\ spoolersMtx = "free"
  /\ spoolers = << >>
  /\ objs = << >>
  /\ daemonWg = 0
  /\ journals = << >>
  /\ emitterPc = "none"
  /\ cur = NoRecordSet
  /\ received = 0
  /\ processed = 0
  /\ prodPc = [p \in Producers |-> "idle"]
  /\ prodLeft = [p \in Producers |-> 0]
  /\ prodResult = [p \in Producers |-> "none"]
  /\ stopPc = [c \in Stoppers |-> "idle"]
  /\ wfsPc = "idle"
  /\ crashed = FALSE

Init == cfg \in Configs /\ InitOutput

\* prodLeft[1] + ... + prodLeft[n]
RECURSIVE SumLeft(_)
SumLeft(n) == IF n = 0 THEN 0 ELSE prodLeft[n] + SumLeft(n - 1)

\* ---------------------------------------------------------------- NewTDOutput
\* NewTDOutput: return output, nil.  The deferred function, registered once
\* GetJournalGroup succeeded, runs at this return and calls
\* journalGroup.Dispose().
NewTDOutputReturn ==
  /\ startPc = "new"
  /\ startPc' = "init"
  /\ journalGroup' = [journalGroup EXCEPT !.disposed = @ + 1]
  /\ UNCHANGED << cfg, outputVars, daemonVars, registryVars, objs, journals,
                  emitterVars, prodVars, callerVars, crashed >>

\* The caller has the output NewTDOutput returned.
Constructed == startPc # "new"

\* ---------------------------------------------------------------- Start
\* spawnEmitter: output.wg.Add(1); go func() {...}()
StartSpawnEmitter ==
  /\ startPc = "init"
  /\ startPc' = "l206"
  /\ outputWg' = outputWg + 1
  /\ emitterPc' = "recv"
  /\ UNCHANGED << newVars, isShuttingDown, chanClosed, closes, spoolerDaemon,
                  daemonVars, registryVars, objs, journals, cur, received,
                  processed, prodVars,
                  callerVars, crashed >>

\* spawnSpoolerDaemon: output.spoolerDaemon = newTDOutputSpoolerDaemon(output)
StartNewDaemon ==
  /\ startPc = "l206"
  /\ startPc' = "l207"
  /\ spoolerDaemon' = "daemon"
  /\ UNCHANGED << newVars, outputWg, isShuttingDown, chanClosed, closes, daemonVars,
                  registryVars, objs, journals, emitterVars, prodVars,
                  callerVars, crashed >>

\* spawnSpoolerDaemon: output.wg.Add(1)
StartWgAdd ==
  /\ startPc = "l207"
  /\ startPc' = "l208"
  /\ outputWg' = outputWg + 1
  /\ UNCHANGED << newVars, isShuttingDown, chanClosed, closes, spoolerDaemon,
                  daemonVars, registryVars, objs, journals, emitterVars,
                  prodVars, callerVars, crashed >>

\* spawnSpoolerDaemon: go output.spoolerDaemon.handle(); Start() returns
StartGoDaemon ==
  /\ startPc = "l208"
  /\ startPc' = "returned"
  /\ daemonPc' = "wait"
  /\ UNCHANGED << newVars, outputVars, daemonChan, visited, daemonWg, registryVars,
                  objs, journals, emitterVars, prodVars, callerVars, crashed >>

\* ---------------------------------------------------------------- Emit
\* Record sets submitted so far: received, or still to be sent by an Emit().
Submitted == received + SumLeft(NumProducers)

\* Emit(recordSets) is called with a slice of n record sets.  The callers are
\* numbered in the order of their calls.
EmitCall(p, n) ==
  /\ Constructed
  /\ prodPc[p] = "idle"
  /\ \A q \in Producers : q < p => prodPc[q] # "idle"
  /\ Submitted + n <= MaxRecordSets
  /\ prodPc' = [prodPc EXCEPT ![p] = IF n = 0 THEN "returned" ELSE "sending"]
  /\ prodLeft' = [prodLeft EXCEPT ![p] = n]
  /\ prodResult' = [prodResult EXCEPT ![p] = IF n = 0 THEN "nil" ELSE "none"]
  /\ UNCHANGED << newVars, startVars, outputVars, daemonVars, registryVars, objs,
                  journals, emitterVars, callerVars, crashed >>

\* Mutant: Emit has no deferred recover().
EmitNoRecover == FALSE

\* Emit's deferred func() { recover() }() stops the panic of a send on the
\* closed channel.
EmitRecovers == TRUE

\* output.emitterChan <- recordSet on the closed channel panics; the deferred
\* recover() ends the panic and Emit returns the zero value of error.
EmitSendClosed(p) ==
  /\ prodPc[p] = "sending"
  /\ chanClosed
  /\ IF EmitRecovers
     THEN /\ prodPc' = [prodPc EXCEPT ![p] = "returned"]
          /\ prodResult' = [prodResult EXCEPT ![p] = "nil"]
          /\ UNCHANGED crashed
     ELSE /\ prodPc' = [prodPc EXCEPT ![p] = "panicked"]
          /\ prodResult' = [prodResult EXCEPT ![p] = "panic"]
          /\ crashed' = TRUE
  /\ UNCHANGED << newVars, startVars, outputVars, daemonVars, registryVars, objs,
                  journals, emitterVars, prodLeft, callerVars >>

\* ---------------------------------------------------------------- Emitter
\* Mutant: the emitter leaves its loop as soon as the channel is closed, also
\* in the middle of a loop body.
EmitterLoopEndsEarly ==
  emitterPc \in {"recv", "getSpooler", "encode", "write"} /\ chanClosed

\* The range loop of the emitter no longer receives.
EmitterLoopEnds == emitterPc = "recv" /\ chanClosed

\* Mutant: the emitter receives the next record set while the write for the
\* one it holds has not returned (the write is handed to another goroutine).
EmitterReceivesDuringWrite == emitterPc \in {"recv", "write"}

\* The emitter goroutine is at the top of its range loop: the body for the
\* record set before, Journal.Write included, has returned.
EmitterAtReceive == emitterPc = "recv"

\* for recordSet := range output.emitterChan: the unbuffered channel hands
\* over the record set producer p is sending; the send returns.
EmitterRecv(p, tag) ==
  /\ EmitterAtReceive
  /\ ~chanClosed
  /\ prodPc[p] = "sending"
  /\ emitterPc' = "getSpooler"
  /\ received' = received + 1
  /\ cur' = [seq |-> received + 1, tag |-> tag, sp |-> 0]
  /\ prodLeft' = [prodLeft EXCEPT ![p] = @ - 1]
  /\ prodPc' = [prodPc EXCEPT ![p] = IF prodLeft[p] = 1 THEN "returned" ELSE @]
  /\ prodResult' = [prodResult EXCEPT ![p] = IF prodLeft[p] = 1 THEN "nil" ELSE @]
  /\ UNCHANGED << newVars, startVars, outputVars, daemonVars, registryVars, objs,
                  journals, processed, callerVars, crashed >>

\* Mutant: an error of the loop body ends the emitter's loop (return in place
\* of continue).
ReturnOnError == "deferSend"

\* if err != nil { logger.Error(...); continue }: the emitter goes on to the
\* next receive.
ContinueLoop == "recv"

\* output.spoolerDaemon.getSpooler(recordSet.Tag) up to spawnSpooler's
\* daemon.spoolersMtx.Lock().  With output.spoolerDaemon still nil the read of
\* daemon.output is a nil pointer dereference.  An error of getSpooler is
\* logged and the loop continues.
EmitterGetSpooler ==
  /\ emitterPc = "getSpooler"
  /\ IF spoolerDaemon = "nil"
     THEN /\ crashed' = TRUE
          /\ UNCHANGED << emitterVars, spoolersMtx >>
     ELSE /\ UNCHANGED crashed
          /\ IF GetSpoolerKey(cfg, cur.tag).err
             THEN /\ cur' = NoRecordSet
                  /\ processed' = processed + 1
                  /\ emitterPc' = ContinueLoop
                  /\ UNCHANGED << received, spoolersMtx >>
             ELSE /\ spoolersMtx = "free"
                  /\ spoolersMtx' = "emitter"
                  /\ emitterPc' = "spawn"
                  /\ UNCHANGED << cur, received, processed >>
  /\ UNCHANGED << newVars, startVars, outputVars, daemonVars, spoolers, objs,
                  journals, prodVars, callerVars >>

\* Mutant: spawnSpooler does not look the key up.
SpoolerNeverExists(key) == FALSE

\* spooler, exists := daemon.spoolers[key]
SpoolerExists(key) == key \in DOMAIN spoolers

\* The body of spawnSpooler under the lock, and the deferred Unlock.
EmitterSpawn ==
  LET key == GetSpoolerKey(cfg, cur.tag).key
      fresh == [newTDOutputSpooler(key) EXCEPT !.pc = "select", !.started = 1]
  IN /\ emitterPc = "spawn"
     /\ IF SpoolerExists(key)
        THEN /\ cur' = [cur EXCEPT !.sp = spoolers[key]]
             /\ UNCHANGED << spoolers, objs, journals, daemonWg >>
        ELSE /\ journals' = GetJournal(key)
             /\ objs' = Append(objs, fresh)
             /\ spoolers' = (key :> (Len(objs) + 1)) @@ spoolers
             /\ daemonWg' = daemonWg + 1
             /\ cur' = [cur EXCEPT !.sp = Len(objs) + 1]
     /\ spoolersMtx' = "free"
     /\ emitterPc' = "encode"
     /\ UNCHANGED << newVars, startVars, outputVars, daemonChan, daemonPc, visited,
                     received, processed, prodVars, callerVars, crashed >>

\* encodeRecords(encoder, recordSet.Records); its error is logged and the
\* loop continues.
EmitterEncode(ok) ==
  /\ emitterPc = "encode"
  /\ IF ok
     THEN emitterPc' = "write" /\ UNCHANGED << cur, processed >>
     ELSE /\ emitterPc' = ContinueLoop
          /\ cur' = NoRecordSet
          /\ processed' = processed + 1
  /\ UNCHANGED << newVars, startVars, outputVars, daemonVars, registryVars, objs,
                  journals, received, prodVars, callerVars, crashed >>

\* Journal.Write(bytes): appends the bytes, or fails and appends nothing.
JournalWrite(key, data, ok) ==
  IF ok
  THEN [journals EXCEPT ![key].chunks = Append(@, data)]
  ELSE journals

\* spooler.journal.Write(buffer.Bytes()); the loop body ends.
EmitterWrite(ok) ==
  /\ emitterPc = "write"
  /\ journals' = JournalWrite(objs[cur.sp].key, cur.seq, ok)
  /\ cur' = NoRecordSet
  /\ processed' = processed + 1
  /\ emitterPc' = IF ok THEN "recv" ELSE ContinueLoop
  /\ UNCHANGED << newVars, startVars, outputVars, daemonVars, registryVars, objs,
                  received, prodVars, callerVars, crashed >>

\* The channel is closed: the range loop ends and the deferred function runs.
EmitterClosed ==
  /\ EmitterLoopEnds
  /\ emitterPc' = "deferSend"
  /\ UNCHANGED << newVars, startVars, outputVars, daemonVars, registryVars, objs,
                  journals, cur, received, processed, prodVars, callerVars,
                  crashed >>

\* Mutant: the shutdown channels are made without a buffer, and the receiver
\* is not at its receive.
ChanUnbuffered(n) == FALSE

\* A send on a shutdownChan, made with capacity 1 and now holding n signals,
\* does not block.
ChanHasRoom(n) == n < 1

\* output.spoolerDaemon.shutdownChan <- struct{}{} (capacity 1); a nil
\* output.spoolerDaemon is a nil pointer dereference.
EmitterSignal ==
  /\ emitterPc = "deferSend"
  /\ IF spoolerDaemon = "nil"
     THEN /\ crashed' = TRUE
          /\ UNCHANGED << emitterPc, daemonChan >>
     ELSE /\ ChanHasRoom(daemonChan)
          /\ daemonChan' = daemonChan + 1
          /\ emitterPc' = "deferDone"
          /\ UNCHANGED crashed
  /\ UNCHANGED << newVars, startVars, outputVars, daemonPc, visited, daemonWg,
                  registryVars, objs, journals, cur, received, processed,
                  prodVars, callerVars >>

\* output.wg.Done() of the emitter's deferred function
EmitterDone ==
  /\ emitterPc = "deferDone"
  /\ emitterPc' = "done"
  /\ outputWg' = outputWg - 1
  /\ UNCHANGED << newVars, startVars, isShuttingDown, chanClosed, closes,
                  spoolerDaemon, daemonVars, registryVars, objs, journals, cur,
                  received, processed, prodVars, callerVars, crashed >>

\* ---------------------------------------------------------------- Daemon
\* Mutant: the daemon's select does not wait for the emitter's signal.
DaemonSelectDefault == TRUE

\* The only case of the daemon's select, <-daemon.shutdownChan, can proceed.
DaemonSelectReady == daemonChan > 0

\* tdOutputSpoolerDaemon.handle: case <-daemon.shutdownChan: break outer
DaemonRecv ==
  /\ daemonPc = "wait"
  /\ DaemonSelectReady
  /\ daemonChan' = daemonChan - 1
  /\ daemonPc' = "lock"
  /\ UNCHANGED << newVars, startVars, outputVars, visited, daemonWg, registryVars,
                  objs, journals, emitterVars, prodVars, callerVars, crashed >>

\* cleanup: daemon.spoolersMtx.Lock()
DaemonLock ==
  /\ daemonPc = "lock"
  /\ spoolersMtx = "free"
  /\ spoolersMtx' = "daemon"
  /\ daemonPc' = "range"
  /\ visited' = {}
  /\ UNCHANGED << newVars, startVars, outputVars, daemonChan, daemonWg, spoolers,
                  objs, journals, emitterVars, prodVars, callerVars, crashed >>

\* Mutant: the range loop of cleanup leaves out the spooler created first.
RegisteredButFirst == {spoolers[k] : k \in DOMAIN spoolers} \ {1}

\* The spoolers the range loop of cleanup iterates over.
Registered == {spoolers[k] : k \in DOMAIN spoolers}

\* Mutant: the compare-and-swap expects the wrong old value and never wins.
SpoolerCasNeverWins(s) == FALSE

\* atomic.CompareAndSwapPointer(&spooler.isShuttingDown, 0, 1)
SpoolerCasWins(s) == ~objs[s].isShuttingDown

\* cleanup, one iteration of the range loop (in any order): the
\* compare-and-swap and, when it succeeded, spooler.shutdownChan <- struct{}{}
\* (capacity 1).
DaemonSignal(s) ==
  /\ daemonPc = "range"
  /\ s \in Registered \ visited
  /\ IF SpoolerCasWins(s)
     THEN /\ ChanHasRoom(objs[s].shutdownChan)
          /\ objs' = [objs EXCEPT ![s].isShuttingDown = TRUE,
                                  ![s].shutdownChan = @ + 1]
     ELSE UNCHANGED objs
  /\ visited' = visited \cup {s}
  /\ UNCHANGED << newVars, startVars, outputVars, daemonChan, daemonPc, daemonWg,
                  registryVars, journals, emitterVars, prodVars, callerVars,
                  crashed >>

\* cleanup: the range loop is over, the deferred Unlock runs.
DaemonUnlock ==
  /\ daemonPc = "range"
  /\ visited = Registered
  /\ spoolersMtx' = "free"
  /\ daemonPc' = "wgWait"
  /\ UNCHANGED << newVars, startVars, outputVars, daemonChan, visited, daemonWg,
                  spoolers, objs, journals, emitterVars, prodVars, callerVars,
                  crashed >>

\* Mutant: cleanup does not wait for the spoolers.
DaemonWgWaitSkipped == TRUE

\* daemon.wg.Wait() returns.
DaemonWgWaitReturns == daemonWg = 0

\* cleanup: daemon.wg.Wait()
DaemonWgWait ==
  /\ daemonPc = "wgWait"
  /\ DaemonWgWaitReturns
  /\ daemonPc' = "wgDone"
  /\ UNCHANGED << newVars, startVars, outputVars, daemonChan, visited, daemonWg,
                  registryVars, objs, journals, emitterVars, prodVars,
                  callerVars, crashed >>

\* cleanup: daemon.output.wg.Done()
DaemonDone ==
  /\ daemonPc = "wgDone"
  /\ daemonPc' = "done"
  /\ outputWg' = outputWg - 1
  /\ UNCHANGED << newVars, startVars, isShuttingDown, chanClosed, closes,
                  spoolerDaemon, daemonChan, visited, daemonWg, registryVars,
                  objs, journals, emitterVars, prodVars, callerVars, crashed >>

\* ---------------------------------------------------------------- Spooler
spoolerFrame ==
  << newVars, startVars, outputVars, daemonChan, daemonPc, visited, registryVars,
     emitterVars, prodVars, callerVars, crashed >>

\* The time.Ticker of spooler s delivers a tick into ticker.C (capacity 1).
Tick(s) ==
  /\ s \in SpoolerIds
  /\ ~objs[s].tickerStopped
  /\ ~objs[s].tick
  /\ objs' = [objs EXCEPT ![s].tick = TRUE]
  /\ UNCHANGED << spoolerFrame, daemonWg, journals >>

\* Mutant: the flush is started in a goroutine of its own (go Flush(...)).
AfterFlushCallAsync == "select"

\* The position of the spooler goroutine once Journal.Flush has been called.
AfterFlushCall == "flushing"

\* handle: case <-spooler.ticker.C: spooler.journal.Flush(...) is called and
\* takes the chunks now in the journal; jerr: Flush fails before any chunk.
SpoolerTick(s, jerr) ==
  /\ s \in SpoolerIds
  /\ objs[s].pc = "select"
  /\ objs[s].tick
  /\ objs' = [objs EXCEPT
       ![s].tick = FALSE,
       ![s].pc = AfterFlushCall,
       ![s].flushes = @ + 1,
       ![s].handle = NoHandle,
       ![s].err = jerr,
       ![s].todo = IF jerr THEN <<>> ELSE journals[objs[s].key].chunks]
  /\ UNCHANGED << spoolerFrame, daemonWg, journals >>

\* The flush handler: spooler.client.Import(...) of the chunk succeeds or not.
HandlerImport(s, ok) ==
  /\ s \in SpoolerIds
  /\ objs[s].pc = "flushing"
  /\ objs[s].todo # <<>>
  /\ ~objs[s].handle.uploaded
  /\ objs' = [objs EXCEPT ![s].handle =
       [NoHandle EXCEPT !.active = TRUE, !.chunk = Head(objs[s].todo),
                        !.uploaded = TRUE, !.uploadOk = ok]]
  /\ UNCHANGED << spoolerFrame, daemonWg, journals >>

\* Mutant: chunk.Dispose() is called after a successful Import only.
HandlerDisposesOnSuccess(uploadOk) == uploadOk

\* Mutant: the handler swallows the error of Import.
HandlerResultNil(uploadOk) == TRUE

\* defer chunk.Dispose(): the handler disposes the chunk whatever Import gave.
HandlerDisposes(uploadOk) == TRUE

\* What the handler returns to Journal.Flush: TRUE for a nil error.
HandlerResult(uploadOk) == uploadOk

\* Journal.Flush after the handler returned for chunk: the chunk leaves the
\* journal when the handler succeeded, and stays otherwise.
JournalAfterHandler(key, chunk, success) ==
  IF success
  THEN [journals EXCEPT ![key].chunks =
         SelectSeq(@, LAMBDA c : c # chunk)]
  ELSE journals

\* The handler returns: the deferred chunk.Dispose() runs, the error of Import
\* is the result, and Journal.Flush goes on to the next chunk.
HandlerReturn(s) ==
  LET h == objs[s].handle
      res == HandlerResult(h.uploadOk)
  IN /\ s \in SpoolerIds
     /\ objs[s].pc = "flushing"
     /\ h.uploaded
     /\ ~h.returned
     /\ objs' = [objs EXCEPT
          ![s].handle = [h EXCEPT
             !.disposed = IF HandlerDisposes(h.uploadOk) THEN @ + 1 ELSE @,
             !.returned = TRUE, !.result = res],
          ![s].err = @ \/ ~res,
          ![s].todo = Tail(@)]
     /\ journals' = JournalAfterHandler(objs[s].key, h.chunk, res)
     /\ UNCHANGED << spoolerFrame, daemonWg >>

\* Journal.Flush hands the next chunk to the handler.
FlushNext(s) ==
  /\ s \in SpoolerIds
  /\ objs[s].pc = "flushing"
  /\ objs[s].handle.returned
  /\ objs[s].todo # <<>>
  /\ objs' = [objs EXCEPT ![s].handle = NoHandle]
  /\ UNCHANGED << spoolerFrame, daemonWg, journals >>

\* Journal.Flush returns, err holding its error (which is logged); back to
\* the select.
FlushReturn(s) ==
  /\ s \in SpoolerIds
  /\ objs[s].pc = "flushing"
  /\ objs[s].todo = <<>>
  /\ ~(objs[s].handle.uploaded /\ ~objs[s].handle.returned)
  /\ objs' = [objs EXCEPT ![s].pc = IF objs[s].err THEN "logError" ELSE "select",
                          ![s].flushes = @ - 1,
                          ![s].handle = NoHandle]
  /\ UNCHANGED << spoolerFrame, daemonWg, journals >>

\* handle: if err != nil { logger.Error(...) }; the loop goes round.
SpoolerLogError(s) ==
  /\ s \in SpoolerIds
  /\ objs[s].pc = "logError"
  /\ objs' = [objs EXCEPT ![s].pc = "select", ![s].err = FALSE]
  /\ UNCHANGED << spoolerFrame, daemonWg, journals >>

\* Mutant: the shutdown case does not leave the loop.
ContinueOuter == "select"

\* break outer: the loop of handle is left, handle returns and the deferred
\* cleanup begins.
BreakOuter == "stopTicker"

\* handle: case <-spooler.shutdownChan: break outer
SpoolerShutdown(s) ==
  /\ s \in SpoolerIds
  /\ objs[s].pc = "select"
  /\ objs[s].shutdownChan > 0
  /\ objs' = [objs EXCEPT ![s].shutdownChan = @ - 1, ![s].pc = BreakOuter]
  /\ UNCHANGED << spoolerFrame, daemonWg, journals >>

\* cleanup: spooler.ticker.Stop()
SpoolerStopTicker(s) ==
  /\ s \in SpoolerIds
  /\ objs[s].pc = "stopTicker"
  /\ objs' = [objs EXCEPT ![s].tickerStopped = TRUE, ![s].pc = "dispose"]
  /\ UNCHANGED << spoolerFrame, daemonWg, journals >>

\* cleanup: spooler.journal.Dispose()
SpoolerDisposeJournal(s) ==
  /\ s \in SpoolerIds
  /\ objs[s].pc = "dispose"
  /\ objs' = [objs EXCEPT ![s].pc = "wgDone"]
  /\ journals' = [journals EXCEPT ![objs[s].key].disposed = @ + 1]
  /\ UNCHANGED << spoolerFrame, daemonWg >>

\* cleanup: spooler.daemon.wg.Done()
SpoolerWgDone(s) ==
  /\ s \in SpoolerIds
  /\ objs[s].pc = "wgDone"
  /\ objs' = [objs EXCEPT ![s].pc = "done"]
  /\ daemonWg' = daemonWg - 1
  /\ UNCHANGED << spoolerFrame, journals >>

\* ---------------------------------------------------------------- Stop
\* Mutant: Stop closes the channel without the compare-and-swap guard.
StopAlwaysWins == TRUE

\* atomic.CompareAndSwapPointer(&output.isShuttingDown, 0, 1)
StopCasWins == ~isShuttingDown

\* Stop: the compare-and-swap.  The callers are numbered in the order in which
\* they reach it.
StopCas(c) ==
  /\ Constructed
  /\ stopPc[c] = "idle"
  /\ \A b \in Stoppers : b < c => stopPc[b] # "idle"
  /\ IF StopCasWins
     THEN isShuttingDown' = TRUE /\ stopPc' = [stopPc EXCEPT ![c] = "close"]
     ELSE UNCHANGED isShuttingDown /\ stopPc' = [stopPc EXCEPT ![c] = "returned"]
  /\ UNCHANGED << newVars, startVars, outputWg, chanClosed, closes, spoolerDaemon,
                  daemonVars, registryVars, objs, journals, emitterVars,
                  prodVars, wfsPc, crashed >>

\* Stop: close(output.emitterChan); closing a closed channel panics.
StopClose(c) ==
  /\ stopPc[c] = "close"
  /\ closes' = closes + 1
  /\ IF chanClosed
     THEN /\ crashed' = TRUE
          /\ stopPc' = [stopPc EXCEPT ![c] = "panicked"]
          /\ UNCHANGED chanClosed
     ELSE /\ chanClosed' = TRUE
          /\ stopPc' = [stopPc EXCEPT ![c] = "returned"]
          /\ UNCHANGED crashed
  /\ UNCHANGED << newVars, startVars, outputWg, isShuttingDown, spoolerDaemon,
                  daemonVars, registryVars, objs, journals, emitterVars,
                  prodVars, wfsPc >>

\* ---------------------------------------------------------------- Wait
\* WaitForShutdown() is called; the caller does so once Start() has returned.
WaitCall ==
  /\ wfsPc = "idle"
  /\ startPc = "returned"
  /\ wfsPc' = "waiting"
  /\ UNCHANGED << newVars, startVars, outputVars, daemonVars, registryVars, objs,
                  journals, emitterVars, prodVars, stopPc, crashed >>

\* output.wg.Wait() returns once the counter is zero.
WaitReturn ==
  /\ wfsPc = "waiting"
  /\ outputWg = 0
  /\ wfsPc' = "returned"
  /\ UNCHANGED << newVars, startVars, outputVars, daemonVars, registryVars, objs,
                  journals, emitterVars, prodVars, stopPc, crashed >>

\* ---------------------------------------------------------------- Next
\* The spooler goroutines that may exist.
MaxSpoolers == MaxRecordSets
SpoolerRange == 1..MaxSpoolers

Next ==
  /\ ~crashed
  /\ \/ NewTDOutputReturn
     \/ StartSpawnEmitter
     \/ StartNewDaemon
     \/ StartWgAdd
     \/ StartGoDaemon
     \/ \E p \in Producers : \E n \in 0..MaxRecordSets : EmitCall(p, n)
     \/ \E p \in Producers : EmitSendClosed(p)
     \/ \E p \in Producers : \E tag \in Tags : EmitterRecv(p, tag)
     \/ EmitterGetSpooler
     \/ EmitterSpawn
     \/ \E ok \in BOOLEAN : EmitterEncode(ok)
     \/ \E ok \in BOOLEAN : EmitterWrite(ok)
     \/ EmitterClosed
     \/ EmitterSignal
     \/ EmitterDone
     \/ DaemonRecv
     \/ DaemonLock
     \/ \E s \in SpoolerRange : DaemonSignal(s)
     \/ DaemonUnlock
     \/ DaemonWgWait
     \/ DaemonDone
     \/ \E s \in SpoolerRange : Tick(s)
     \/ \E s \in SpoolerRange : \E jerr \in BOOLEAN : SpoolerTick(s, jerr)
     \/ \E s \in SpoolerRange : \E ok \in BOOLEAN : HandlerImport(s, ok)
     \/ \E s \in SpoolerRange : HandlerReturn(s)
     \/ \E s \in SpoolerRange : FlushNext(s)
     \/ \E s \in SpoolerRange : FlushReturn(s)
     \/ \E s \in SpoolerRange : SpoolerLogError(s)
     \/ \E s \in SpoolerRange : SpoolerShutdown(s)
     \/ \E s \in SpoolerRange : SpoolerStopTicker(s)
     \/ \E s \in SpoolerRange : SpoolerDisposeJournal(s)
     \/ \E s \in SpoolerRange : SpoolerWgDone(s)
     \/ \E c \in Stoppers : StopCas(c)
     \/ \E c \in Stoppers : StopClose(c)
     \/ WaitCall
     \/ WaitReturn

Spec == Init /\ [][Next]_vars

\* ---------------------------------------------------------------- fairness
\* The Go scheduler runs every goroutine that can take a step; a select with
\* several ready cases picks one at random, so a shutdown signal that stays
\* buffered is taken after finitely many ticks (strong fairness).  Journal
\* writes, flushes and uploads return.  The ticker's ticks and the callers'
\* decisions to call Emit, Stop or WaitForShutdown carry no fairness.
Fairness ==
  /\ WF_vars(NewTDOutputReturn \/ StartSpawnEmitter \/ StartNewDaemon
             \/ StartWgAdd \/ StartGoDaemon)
  /\ WF_vars(EmitterGetSpooler \/ EmitterSpawn \/ EmitterClosed
             \/ EmitterSignal \/ EmitterDone
             \/ (\E ok \in BOOLEAN : EmitterEncode(ok))
             \/ (\E ok \in BOOLEAN : EmitterWrite(ok)))
  /\ WF_vars(DaemonRecv \/ DaemonLock \/ DaemonUnlock \/ DaemonWgWait
             \/ DaemonDone \/ (\E s \in SpoolerRange : DaemonSignal(s)))
  /\ \A s \in SpoolerRange :
       /\ WF_vars(\/ \E ok \in BOOLEAN : HandlerImport(s, ok)
                  \/ HandlerReturn(s) \/ FlushNext(s) \/ FlushReturn(s)
                  \/ SpoolerLogError(s)
                  \/ SpoolerStopTicker(s) \/ SpoolerDisposeJournal(s)
                  \/ SpoolerWgDone(s))
       /\ SF_vars(SpoolerShutdown(s))
  /\ \A c \in Stoppers : WF_vars(StopClose(c))
  /\ \A p \in Producers : WF_vars(EmitSendClosed(p))
  /\ WF_vars(WaitReturn)

\* The liveness check runs the same operations in a smaller environment:
\* both names wildcards, tags with two destinations, one Stop() call, and
\* Emit() called once Start() has returned.
LiveTags == {TagX, TagAB}

InitLive == Init /\ cfg = CfgStarStar

NextLive ==
  /\ ~crashed
  /\ \/ NewTDOutputReturn
     \/ StartSpawnEmitter
     \/ StartNewDaemon
     \/ StartWgAdd
     \/ StartGoDaemon
     \/ \E p \in Producers : \E n \in 1..MaxRecordSets :
          startPc = "returned" /\ EmitCall(p, n)
     \/ \E p \in Producers : EmitSendClosed(p)
     \/ \E p \in Producers : \E tag \in LiveTags : EmitterRecv(p, tag)
     \/ EmitterGetSpooler
     \/ EmitterSpawn
     \/ \E ok \in BOOLEAN : EmitterEncode(ok)
     \/ \E ok \in BOOLEAN : EmitterWrite(ok)
     \/ EmitterClosed
     \/ EmitterSignal
     \/ EmitterDone
     \/ DaemonRecv
     \/ DaemonLock
     \/ \E s \in SpoolerRange : DaemonSignal(s)
     \/ DaemonUnlock
     \/ DaemonWgWait
     \/ DaemonDone
     \/ \E s \in SpoolerRange : Tick(s)
     \/ \E s \in SpoolerRange : \E jerr \in BOOLEAN : SpoolerTick(s, jerr)
     \/ \E s \in SpoolerRange : \E ok \in BOOLEAN : HandlerImport(s, ok)
     \/ \E s \in SpoolerRange : HandlerReturn(s)
     \/ \E s \in SpoolerRange : FlushNext(s)
     \/ \E s \in SpoolerRange : FlushReturn(s)
     \/ \E s \in SpoolerRange : SpoolerLogError(s)
     \/ \E s \in SpoolerRange : SpoolerShutdown(s)
     \/ \E s \in SpoolerRange : SpoolerStopTicker(s)
     \/ \E s \in SpoolerRange : SpoolerDisposeJournal(s)
     \/ \E s \in SpoolerRange : SpoolerWgDone(s)
     \/ StopCas(1)
     \/ StopClose(1)
     \/ WaitCall
     \/ WaitReturn

FairSpec == InitLive /\ [][NextLive]_vars /\ Fairness

\* ---------------------------------------------------------------- resolution
\* Destination resolution is checked with every combination of fixed and
\* wildcard names and with tags of no, one and two dots, in an environment
\* that only starts the output and emits.
NameTbl == <<116, 98, 108>>     \* "tbl"
TagABC == <<97, 46, 98, 46, 99>> \* "a.b.c"
TagDotX == <<46, 120>>          \* ".x"

CfgDbTbl == [databaseName |-> NameDb, tableName |-> NameTbl]
CfgStarTbl == [databaseName |-> Star, tableName |-> NameTbl]
ResolveConfigs == {CfgDbTbl, CfgDbStar, CfgStarTbl, CfgStarStar}
ResolveTags == {TagX, TagAB, TagABC, TagDotX, TagEmpty}

InitResolve == cfg \in ResolveConfigs /\ InitOutput

NextResolve ==
  /\ ~crashed
  /\ \/ NewTDOutputReturn
     \/ StartSpawnEmitter
     \/ StartNewDaemon
     \/ StartWgAdd
     \/ StartGoDaemon
     \/ \E p \in Producers : \E n \in 1..MaxRecordSets :
          startPc = "returned" /\ EmitCall(p, n)
     \/ \E p \in Producers : \E tag \in ResolveTags : EmitterRecv(p, tag)
     \/ EmitterGetSpooler
     \/ EmitterSpawn
     \/ \E ok \in BOOLEAN : EmitterEncode(ok)
     \/ \E ok \in BOOLEAN : EmitterWrite(ok)

ResolveSpec == InitResolve /\ [][NextResolve]_vars

\* ================================================================ claims
AllSpoolersDone == \A s \in SpoolerIds : objs[s].pc = "done"

AllJournalsDisposed ==
  \A s \in SpoolerIds : journals[objs[s].key].disposed >= 1

\* C1: shutdown completeness.  Once a WaitForShutdown() (called after Start()
\* returned) has itself returned, every spooler goroutine has ended
\* and the journal of every created spooler has been disposed; and the daemon
\* has called output.wg.Done() only with every spooler goroutine ended.
C1_ShutdownComplete ==
  /\ wfsPc = "returned" => AllSpoolersDone /\ AllJournalsDisposed
  /\ daemonPc = "done" => AllSpoolersDone

\* C1 witness: WaitForShutdown() returned after a Stop(), with two spoolers
\* created and ended.
C1_Witness ==
  /\ wfsPc = "returned"
  /\ \E c \in Stoppers : stopPc[c] = "returned"
  /\ Len(objs) = 2
  /\ AllSpoolersDone

\* C3: idempotent Stop.  close(emitterChan) is executed at most once, only by
\* a caller that won the compare-and-swap, no Stop() panics, and the flag
\* never goes back from shutting-down to idle.
C3_IdempotentStop ==
  /\ [](/\ closes <= 1
        /\ \A c \in Stoppers : stopPc[c] # "panicked"
        /\ Cardinality({c \in Stoppers : stopPc[c] = "close"}) + closes <= 1
        /\ (\E c \in Stoppers : stopPc[c] # "idle") => isShuttingDown
        /\ (\A c \in Stoppers : stopPc[c] = "returned") => closes = 1)
  /\ [][isShuttingDown => isShuttingDown']_vars

\* C3 witness: every Stop() call has returned and the channel was closed once.
C3_Witness ==
  /\ \A c \in Stoppers : stopPc[c] = "returned"
  /\ closes = 1
  /\ chanClosed

\* C4: Emit after, or concurrent with, Stop.  An Emit that meets the closed
\* channel is not blocked (its send panics at once), never lets the panic
\* out, returns nil, and no record set is received once the channel is closed.
C4_EmitAfterStop ==
  /\ [](\A p \in Producers :
          /\ prodPc[p] # "panicked"
          /\ prodPc[p] = "returned" => prodResult[p] = "nil"
          /\ (prodPc[p] = "sending" /\ chanClosed /\ ~crashed) =>
               ENABLED (~crashed /\ EmitSendClosed(p)))
  /\ [][chanClosed => received' = received]_vars

\* C4 witness: an Emit of two record sets was cut short by Stop after its
\* first record set was received, and returned nil.
C4_Witness ==
  \E p \in Producers :
    /\ prodPc[p] = "returned"
    /\ prodResult[p] = "nil"
    /\ prodLeft[p] = 1
    /\ received = 1
    /\ chanClosed

\* C2: shutdown liveness.  Under FairSpec, once Start() has returned and a
\* Stop() has won the flag, the emitter, the daemon and every spooler
\* goroutine eventually end and no WaitForShutdown() stays blocked.
C2_ShutdownLive ==
  (startPc = "returned" /\ isShuttingDown) ~>
    (/\ emitterPc = "done"
     /\ daemonPc = "done"
     /\ AllSpoolersDone
     /\ wfsPc # "waiting")

\* C2 witness: Stop() has closed the channel after Start() returned, while
\* WaitForShutdown() is blocked, two spoolers exist, one in the middle of an
\* upload with its next tick already pending.
C2_Witness ==
  /\ startPc = "returned"
  /\ chanClosed
  /\ wfsPc = "waiting"
  /\ Len(objs) = 2
  /\ \E s \in SpoolerIds :
       objs[s].pc = "flushing" /\ objs[s].handle.uploaded /\ objs[s].tick

\* The emitter has begun, or is past, its deferred signal to the daemon; or
\* the daemon or a spooler shows that the shutdown has begun.
ShutdownSignalled ==
  \/ emitterPc \in {"deferSend", "deferDone", "done"}
  \/ daemonChan > 0
  \/ daemonPc \notin {"none", "wait"}
  \/ \E s \in SpoolerIds : objs[s].isShuttingDown \/ objs[s].shutdownChan > 0

\* C5: no accepted record set is lost by shutdown.  Every record set received
\* from the channel is received once (the sequence numbers count them), the
\* emitter works on at most one at a time, and when the emitter signals the
\* daemon the loop body of every received record set has ended.
C5_NoAcceptedLost ==
  /\ processed <= received
  /\ received <= processed + 1
  /\ (cur # NoRecordSet) <=> (received = processed + 1)
  /\ cur # NoRecordSet => cur.seq = received
  /\ ShutdownSignalled => (processed = received /\ cur = NoRecordSet)

\* C5 witness: two record sets were received and written to one journal, and
\* the emitter has signalled the daemon and ended.
C5_Witness ==
  /\ emitterPc = "done"
  /\ received = 2
  /\ processed = 2
  /\ \E k \in DOMAIN journals : Len(journals[k].chunks) = 2

\* C6: registry idempotence.  No two spooler objects have the same key, every
\* spooler object is the registry's entry for its key and has had one flush
\* goroutine started; the spooler the emitter got for a record set is the
\* entry of the record set's key, and its write goes to the journal of that
\* key; registry entries are never removed or replaced.
C6_RegistryIdempotent ==
  /\ [](/\ \A s, t \in SpoolerIds : objs[s].key = objs[t].key => s = t
        /\ \A s \in SpoolerIds :
             /\ objs[s].key \in DOMAIN spoolers
             /\ spoolers[objs[s].key] = s
             /\ objs[s].started = 1
        /\ Cardinality(DOMAIN spoolers) = Len(objs)
        /\ emitterPc \in {"encode", "write"} =>
             /\ cur.sp \in SpoolerIds
             /\ objs[cur.sp].key = GetSpoolerKey(cfg, cur.tag).key
             /\ cur.sp = spoolers[GetSpoolerKey(cfg, cur.tag).key])
  /\ [][/\ \A k \in DOMAIN spoolers :
             k \in DOMAIN spoolers' /\ spoolers'[k] = spoolers[k]
        /\ (emitterPc = "write" /\ emitterPc' = "recv") =>
             \A k \in DOMAIN journals :
               k # GetSpoolerKey(cfg, cur.tag).key =>
                 journals'[k].chunks = journals[k].chunks]_vars

\* C6 witness: the second record set, tagged "X", got the spooler that was
\* created for the first one and is about to be written to the journal that
\* holds the first one.
C6_Witness ==
  /\ emitterPc = "write"
  /\ cur.seq = 2
  /\ cur.tag = TagUpperX
  /\ cur.sp = 1
  /\ Len(objs) = 1
  /\ journals[objs[1].key].chunks = <<1>>

\* C7: at most one flush in flight.  No spooler has more than one
\* Journal.Flush running, whatever ticks arrive meanwhile; and a spooler at
\* its select with a tick pending can start its flush while another spooler
\* is flushing.
C7_OneFlushInFlight ==
  /\ \A s \in SpoolerIds :
       /\ objs[s].flushes <= 1
       /\ objs[s].flushes = 1 <=> objs[s].pc = "flushing"
  /\ \A s, t \in SpoolerIds :
       (/\ s # t
        /\ objs[s].pc = "flushing"
        /\ objs[t].pc = "select"
        /\ objs[t].tick
        /\ ~crashed) =>
         ENABLED (~crashed /\ SpoolerTick(t, FALSE))

\* C7 witness: two spoolers are uploading a chunk at the same time, and a
\* tick has arrived for one of them during its flush.
C7_Witness ==
  \E s, t \in SpoolerIds :
    /\ s # t
    /\ objs[s].pc = "flushing" /\ objs[s].handle.uploaded
    /\ ~objs[s].handle.returned
    /\ objs[s].tick
    /\ objs[t].pc = "flushing" /\ objs[t].handle.uploaded
    /\ ~objs[t].handle.returned

\* C8: chunk disposal.  A handler invocation that has returned has called
\* Dispose on its chunk exactly once, whether Import succeeded or failed; one
\* that has not yet returned has not called it.
C8_ChunkDisposedOnce ==
  \A s \in SpoolerIds :
    /\ objs[s].handle.returned => objs[s].handle.disposed = 1
    /\ ~objs[s].handle.returned => objs[s].handle.disposed = 0

\* C8 witness: a handler whose Import failed has returned, with its chunk
\* disposed once.
C8_Witness ==
  \E s \in SpoolerIds :
    /\ objs[s].handle.returned
    /\ ~objs[s].handle.uploadOk
    /\ objs[s].handle.disposed = 1

\* The chunks in the journal of spooler s, as a set.
ChunksOf(js, s) == {js[objs[s].key].chunks[i] :
                      i \in 1..Len(js[objs[s].key].chunks)}

\* C9: retry through the fixed tick only.  While a spooler is in its loop its
\* ticker is not stopped.  A handler whose Import failed returns failure and
\* its chunk stays in the journal; a chunk leaves the journal only in the
\* step in which a handler for it returns success; a flush, and so every
\* handler invocation, starts only by taking a tick at the select; after a
\* failed flush the spooler goes back to the select; and a flush that starts
\* is given every chunk then in the journal.
C9_RetryOnTick ==
  /\ [](\A s \in SpoolerIds :
          objs[s].pc \in {"select", "flushing", "logError"} =>
            ~objs[s].tickerStopped)
  /\ [][\A s \in SpoolerIds :
          LET h == objs[s].handle
              g == objs'[s].handle
              returns == h.uploaded /\ ~h.returned /\ g.returned
          IN /\ (returns /\ ~h.uploadOk) =>
                  /\ ~g.result
                  /\ objs'[s].err
                  /\ h.chunk \in ChunksOf(journals', s)
             /\ \A c \in ChunksOf(journals, s) \ ChunksOf(journals', s) :
                  returns /\ g.result /\ h.uploadOk /\ h.chunk = c
             /\ (~h.uploaded /\ g.uploaded) =>
                  objs[s].pc = "flushing" /\ objs'[s].pc = "flushing"
             /\ (objs[s].pc # "flushing" /\ objs'[s].pc = "flushing") =>
                  /\ objs[s].pc = "select"
                  /\ objs[s].tick /\ ~objs'[s].tick
                  /\ ~objs'[s].err => objs'[s].todo = journals[objs[s].key].chunks
             /\ objs[s].pc = "logError" => objs'[s].pc \in {"logError", "select"}
       ]_vars

\* C9 witness: a flush in which an upload failed has returned its error, the
\* chunk is still in the journal, the ticker runs and its next tick is
\* pending.
C9_Witness ==
  \E s \in SpoolerIds :
    /\ objs[s].pc = "logError"
    /\ journals[objs[s].key].chunks # <<>>
    /\ ~objs[s].tickerStopped
    /\ objs[s].tick

KeyDbX == <<100, 98, 46, 120>>                            \* "db.x"
KeyAB == <<97, 46, 98>>                                   \* "a.b"
KeyDbXPadded == <<100, 98, 95, 46, 120, 95, 95>>          \* "db_.x__"
KeyABPadded == <<97, 95, 95, 46, 98, 95, 95>>             \* "a__.b__"

\* The emitter holds the spooler getSpooler returned for its record set.
Routed == emitterPc \in {"encode", "write"}

\* C10 as stated: with namespace "db" and a wildcard relation tag "x" is routed
\* to the key "db.x"; with both wildcards tag "a.b" is routed to "a.b".
C10_RoutingKeysAsStated ==
  Routed =>
    /\ (cfg = CfgDbStar /\ cur.tag = TagX) => objs[cur.sp].key = KeyDbX
    /\ (cfg = CfgStarStar /\ cur.tag = TagAB) => objs[cur.sp].key = KeyAB

\* C10 amended: each component is padded with "_" to three characters, so
\* tag "x" under ("db", wildcard) is routed to "db_.x__" and tag "a.b" under
\* two wildcards to "a__.b__".
C10_RoutingKeysPadded ==
  Routed =>
    /\ (cfg = CfgDbStar /\ cur.tag = TagX) =>
         /\ objs[cur.sp].key = KeyDbXPadded
         /\ KeyDbXPadded \in DOMAIN spoolers
         /\ spoolers[KeyDbXPadded] = cur.sp
    /\ (cfg = CfgStarStar /\ cur.tag = TagAB) =>
         /\ objs[cur.sp].key = KeyABPadded
         /\ KeyABPadded \in DOMAIN spoolers
         /\ spoolers[KeyABPadded] = cur.sp

\* C10 witness: under two wildcards the record set tagged "a.b" is about to
\* be written to the journal of its spooler.
C10_Witness ==
  /\ emitterPc = "write"
  /\ cfg = CfgStarStar
  /\ cur.tag = TagAB

\* The other case of C10 is reached as well.
C10_WitnessDb ==
  /\ emitterPc = "write"
  /\ cfg = CfgDbStar
  /\ cur.tag = TagX


\* The characters the normalizer's result is to consist of: [a-z0-9_].
NameChars == (97..122) \cup (48..57) \cup {95}

InNameChars(name) == \A i \in 1..Len(name) : name[i] \in NameChars

\* C11 as stated: the two names getSpooler normalized for the record set the
\* emitter holds consist of characters of [a-z0-9_] only, and the
\* normalizer gives its error exactly for the empty name.
C11_NormalizerCharset ==
  LET raw == ResolveNames(cfg, cur.tag)
      db == normalizeDatabaseName(raw.databaseName)
      tb == normalizeTableName(raw.tableName)
  IN /\ emitterPc \in {"getSpooler", "spawn", "encode", "write"} =>
          /\ db.err <=> Len(raw.databaseName) = 0
          /\ tb.err <=> Len(raw.tableName) = 0
     /\ Routed =>
          /\ InNameChars(db.name)
          /\ InNameChars(tb.name)
          /\ objs[cur.sp].key = db.name \o Dot \o tb.name


\* The emitter goroutine has left its receive loop.
EmitterEnded == emitterPc \in {"deferSend", "deferDone", "done"}

\* C12: emitter error isolation.  A loop body that fails (error of getSpooler
\* for an invalid name, of encodeRecords or of Journal.Write) ends with the
\* emitter back at its receive, holding nothing, with no journal changed and,
\* for an invalid name, no spooler created; every spooler has the key of a
\* valid name; the emitter leaves its loop only at the receive on the closed
\* channel; and at its receive it takes the next record set offered.
C12_ErrorIsolation ==
  /\ [](/\ \A s \in SpoolerIds :
             \E tag \in Tags :
               GetSpoolerKey(cfg, tag) = [key |-> objs[s].key, err |-> FALSE]
        /\ EmitterEnded => chanClosed
        /\ \A p \in Producers :
             (emitterPc = "recv" /\ ~chanClosed /\ prodPc[p] = "sending"
              /\ ~crashed) => ENABLED (~crashed /\ EmitterRecv(p, TagX)))
  /\ [][/\ (emitterPc = "getSpooler" /\ spoolerDaemon # "nil"
            /\ GetSpoolerKey(cfg, cur.tag).err) =>
              /\ Len(objs') = Len(objs)
              /\ spoolers' = spoolers
              /\ emitterPc' \in {"getSpooler", "recv"}
              /\ emitterPc' = "recv" =>
                   /\ cur' = NoRecordSet
                   /\ processed' = processed + 1
                   /\ journals' = journals
        /\ (emitterPc \in {"encode", "write"} /\ emitterPc' # emitterPc
            /\ (emitterPc = "write" => journals' = journals)) =>
              /\ emitterPc' \in {"recv", "write"}
              /\ emitterPc' = "recv" =>
                   /\ cur' = NoRecordSet
                   /\ processed' = processed + 1
                   /\ journals' = journals
                   /\ Len(objs') = Len(objs)
        /\ (~EmitterEnded /\ EmitterEnded') => (emitterPc = "recv" /\ chanClosed)
       ]_vars

\* C12 witness: the loop body of the first record set failed and the second
\* record set was then written to the journal of its spooler.
C12_Witness ==
  /\ processed = 2
  /\ Len(objs) = 1
  /\ journals[objs[1].key].chunks = <<2>>

\* The invalid-name case: the first record set had the empty tag, no spooler
\* was created for it, and the emitter is working on the second one.
C12_WitnessInvalidName ==
  /\ processed = 1
  /\ objs = <<>>
  /\ emitterPc = "getSpooler"
  /\ cur.seq = 2
  /\ cur.tag # TagEmpty


\* The journal of key holds its record sets in the order of their numbers.
InDequeueOrder(key) ==
  \A i, j \in 1..Len(journals[key].chunks) :
    i < j => journals[key].chunks[i] < journals[key].chunks[j]

\* C13: per-destination write order.  The record sets are numbered in the
\* order in which the emitter received them.  Every journal holds the record
\* sets written to it in that order, all of them received before the one the
\* emitter holds; the emitter's write appends the record set it holds to the
\* end of the journal of that record set's key and touches no other journal;
\* and the one emitter goroutine receives its next record set only after the
\* write for the one before has returned.
C13_WriteOrder ==
  /\ [](\A k \in DOMAIN journals :
          /\ InDequeueOrder(k)
          /\ \A i \in 1..Len(journals[k].chunks) :
               /\ journals[k].chunks[i] \in 1..processed
               /\ cur # NoRecordSet => journals[k].chunks[i] < cur.seq)
  /\ [][/\ (emitterPc = "write" /\ emitterPc' # "write") =>
             LET key == GetSpoolerKey(cfg, cur.tag).key
             IN /\ emitterPc' = "recv"
                /\ \/ journals' = journals
                   \/ journals' =
                        [journals EXCEPT ![key].chunks = Append(@, cur.seq)]
        /\ received' # received =>
             /\ emitterPc = "recv"
             /\ received' = received + 1
             /\ cur'.seq = received'
             /\ journals' = journals
       ]_vars

\* C13 witness: the first and the second record set received were written
\* to the same journal, which holds them in that order, while the spooler of
\* the journal has not flushed yet.
C13_Witness ==
  /\ emitterPc = "recv"
  /\ Len(objs) = 1
  /\ journals[objs[1].key].chunks = <<1, 2>>
  /\ objs[1].pc = "select"


\* Shutdown signals spooler s has taken from its shutdownChan.
SignalsTaken(s) ==
  IF objs[s].pc \in {"stopTicker", "dispose", "wgDone", "done"} THEN 1 ELSE 0

\* Shutdown signals sent to spooler s so far: those buffered and those taken.
SignalsSent(s) == objs[s].shutdownChan + SignalsTaken(s)

\* The daemon has left the range loop of its cleanup.
BroadcastDone == daemonPc \in {"wgWait", "wgDone", "done"}

\* C14: shutdown broadcast.  No spooler is ever sent more than one shutdown
\* signal, and a signal is sent only to a spooler whose flag says so; once
\* the daemon has left the loop of its cleanup every spooler created has been
\* sent exactly one, and all of them are in the registry; a signal is sent
\* only in the step that wins the spooler's flag; and from the moment the
\* daemon has taken its own shutdown signal no spooler is created.
C14_ShutdownBroadcast ==
  /\ [](/\ \A s \in SpoolerIds :
             /\ SignalsSent(s) <= 1
             /\ SignalsSent(s) = 1 <=> objs[s].isShuttingDown
        /\ BroadcastDone =>
             /\ \A s \in SpoolerIds : SignalsSent(s) = 1
             /\ Registered = SpoolerIds)
  /\ [][/\ \A s \in SpoolerIds :
             objs'[s].shutdownChan > objs[s].shutdownChan =>
               /\ ~objs[s].isShuttingDown /\ objs'[s].isShuttingDown
               /\ daemonPc = "range" /\ spoolersMtx = "daemon"
        /\ daemonPc \notin {"none", "wait"} =>
             /\ Len(objs') = Len(objs)
             /\ spoolers' = spoolers
       ]_vars

\* C14 witness: the daemon has signalled two spoolers and waits for them; one
\* has taken its signal and the other one's signal is still buffered while
\* the spooler is in a flush.
C14_Witness ==
  /\ daemonPc = "wgWait"
  /\ Len(objs) = 2
  /\ \E s, t \in SpoolerIds :
       /\ SignalsTaken(s) = 1
       /\ objs[t].shutdownChan = 1
       /\ objs[t].pc = "flushing"


\* The positions of a spooler goroutine after it took its shutdown signal, in
\* order: ticker.Stop, journal.Dispose, daemon.wg.Done, ended.
DrainOrder == <<"stopTicker", "dispose", "wgDone", "done">>

DrainPos(pc) ==
  IF \E i \in 1..Len(DrainOrder) : DrainOrder[i] = pc
  THEN CHOOSE i \in 1..Len(DrainOrder) : DrainOrder[i] = pc
  ELSE 0

\* C15: spooler drain sequence.  A spooler that takes its shutdown signal from
\* the channel leaves its loop in that step; from then on it has no flush
\* running and starts none, its ticker delivers nothing once stopped, and it
\* goes through ticker.Stop, journal.Dispose and daemon.wg.Done in that
\* order, each once (the ticker is stopped, the journal's Dispose count is 1
\* and the daemon's counter has lost 1 exactly from the matching position
\* on); a spooler in its loop has done none of the three; and a spooler that
\* has ended stays ended, with one goroutine started for it.
C15_DrainSequence ==
  /\ [](/\ \A s \in SpoolerIds :
             LET d == DrainPos(objs[s].pc)
             IN /\ objs[s].tickerStopped <=> d >= 2
                /\ journals[objs[s].key].disposed = (IF d >= 3 THEN 1 ELSE 0)
                /\ d >= 1 =>
                     /\ objs[s].flushes = 0
                     /\ ~objs[s].handle.active
                     /\ objs[s].todo = <<>>
                /\ objs[s].started = 1
        /\ daemonWg = Cardinality({s \in SpoolerIds : objs[s].pc # "done"}))
  /\ [][\A s \in SpoolerIds :
          LET d == DrainPos(objs[s].pc)
              e == DrainPos(objs'[s].pc)
          IN /\ objs'[s].shutdownChan < objs[s].shutdownChan =>
                  d = 0 /\ e = 1 /\ objs[s].pc = "select"
             /\ d >= 1 => e \in {d, d + 1}
             /\ d = 4 => objs'[s] = objs[s]
             /\ d >= 1 =>
                  /\ objs'[s].flushes = 0
                  /\ journals'[objs[s].key].chunks = journals[objs[s].key].chunks
             /\ (objs[s].tickerStopped /\ ~objs[s].tick) => ~objs'[s].tick
       ]_vars

\* C15 witness: a spooler has ended after the three steps of its cleanup, and
\* its journal, disposed once, still holds a record set that no flush was
\* started for.
C15_Witness ==
  \E s \in SpoolerIds :
    /\ objs[s].pc = "done"
    /\ objs[s].tickerStopped
    /\ journals[objs[s].key].disposed = 1
    /\ journals[objs[s].key].chunks # <<>>


\* The tag has a ".".
HasDot(tag) == \E i \in 1..Len(tag) : tag[i] = 46

\* The tag cut in two at a ".", the part before holding no ".".
PrefixSuffix(tag) ==
  CHOOSE c \in {<<SubSeq(tag, 1, i - 1), SubSeq(tag, i + 1, Len(tag))>> :
                  i \in {j \in 1..Len(tag) : tag[j] = 46}} :
    ~HasDot(c[1])

\* The (namespace, relation) pair before normalization, as the claim has it.
StatedPair(conf, tag) ==
  CASE conf.databaseName # Star /\ conf.tableName # Star ->
         <<conf.databaseName, conf.tableName>>
    [] conf.databaseName # Star /\ conf.tableName = Star ->
         <<conf.databaseName, tag>>
    [] conf.databaseName = Star /\ conf.tableName # Star ->
         <<tag, conf.tableName>>
    [] conf.databaseName = Star /\ conf.tableName = Star ->
         IF HasDot(tag) THEN PrefixSuffix(tag) ELSE <<Star, tag>>

\* C16: destination resolution.  The record set the emitter holds at or after
\* getSpooler has the pair the claim's table gives for the configured names
\* and its tag; getSpooler fails exactly when a component of the pair is
\* empty; and the spooler returned is the registry's entry for the key made
\* of the two normalized components joined by ".".
C16_DestinationResolution ==
  LET pair == StatedPair(cfg, cur.tag)
      raw == ResolveNames(cfg, cur.tag)
      key == normalizeDatabaseName(pair[1]).name \o Dot
               \o normalizeTableName(pair[2]).name
  IN /\ emitterPc \in {"getSpooler", "spawn", "encode", "write"} =>
          /\ raw.databaseName = pair[1]
          /\ raw.tableName = pair[2]
          /\ GetSpoolerKey(cfg, cur.tag).err <=>
               (pair[1] = <<>> \/ pair[2] = <<>>)
     /\ emitterPc = "spawn" => pair[1] # <<>> /\ pair[2] # <<>>
     /\ Routed =>
          /\ objs[cur.sp].key = key
          /\ key \in DOMAIN spoolers
          /\ spoolers[key] = cur.sp

\* C16 witness: under two wildcards the record set tagged "a.b.c" has the
\* spooler of the key "a__.b.c".
C16_Witness ==
  /\ Routed
  /\ cfg = CfgStarStar
  /\ cur.tag = TagABC
  /\ objs[cur.sp].key = <<97, 95, 95, 46, 98, 46, 99>>

\* The other three combinations are reached as well: both names fixed, only
\* the namespace a wildcard, only the relation a wildcard.
C16_WitnessFixed ==
  /\ Routed /\ cfg = CfgDbTbl /\ cur.tag = TagABC
  /\ objs[cur.sp].key = <<100, 98, 95, 46, 116, 98, 108>>

C16_WitnessStarTbl ==
  /\ Routed /\ cfg = CfgStarTbl /\ cur.tag = TagX
  /\ objs[cur.sp].key = <<120, 95, 95, 46, 116, 98, 108>>

C16_WitnessDbStar ==
  /\ Routed /\ cfg = CfgDbStar /\ cur.tag = TagX
  /\ objs[cur.sp].key = <<100, 98, 95, 46, 120, 95, 95>>

\* With two wildcards a tag without "." leaves the namespace the wildcard.
C16_WitnessNoDot ==
  /\ Routed /\ cfg = CfgStarStar /\ cur.tag = TagX
  /\ objs[cur.sp].key = <<42, 95, 95, 46, 120, 95, 95>>


\* The spooler goroutine of s is inside Journal.Flush.
InFlush(s) == objs[s].pc = "flushing" \/ objs[s].flushes > 0

\* C17: no use of a disposed journal.  A spooler is signalled to shut down
\* only when the emitter has left its loop; a journal whose Dispose has been
\* called has its spooler past the loop and out of any flush, and the emitter
\* past its last write; what a disposed journal holds never changes again (no
\* Write appends to it, no Flush takes from it); and Dispose is called on a
\* journal once.
C17_NoUseAfterDispose ==
  /\ [](/\ \A s \in SpoolerIds :
             (objs[s].isShuttingDown \/ objs[s].shutdownChan > 0) =>
               EmitterEnded
        /\ \A s \in SpoolerIds :
             journals[objs[s].key].disposed >= 1 =>
               /\ journals[objs[s].key].disposed = 1
               /\ EmitterEnded
               /\ objs[s].pc \in {"wgDone", "done"}
               /\ ~InFlush(s))
  /\ [][/\ \A k \in DOMAIN journals :
             journals[k].disposed >= 1 => journals'[k] = journals[k]
        /\ \A s \in SpoolerIds :
             journals[objs[s].key].disposed >= 1 => ~InFlush(s)'
       ]_vars

\* C17 witness: two journals have been disposed by their spoolers after the
\* emitter wrote one record set to each and ended.
C17_Witness ==
  /\ emitterPc = "done"
  /\ Len(objs) = 2
  /\ \A s \in SpoolerIds :
       /\ journals[objs[s].key].disposed = 1
       /\ Len(journals[objs[s].key].chunks) = 1


\* C18 as stated: when the creation of a spooler calls
\* journalGroup.GetJournal, Dispose has not been called on the journal group.
C18_GroupLiveAtGetJournal ==
  [][Len(objs') > Len(objs) => journalGroup.disposed = 0]_vars

\* What the code does instead: from the return of NewTDOutput on, and so at
\* every GetJournal, the journal group has been disposed once.
C18_GroupDisposedAtConstruction ==
  /\ Constructed => journalGroup.disposed = 1
  /\ objs # <<>> => journalGroup.disposed = 1

\* A spooler has been given a journal by the disposed journal group.
C18_Witness ==
  /\ Len(objs) = 1
  /\ objs[1].key \in DOMAIN journals
  /\ journalGroup.disposed = 1


\* The emitter goroutine reads output.spoolerDaemon, for getSpooler or for the
\* deferred send, while Start() has not assigned it: a nil dereference.
EmitterUsesNilDaemon ==
  /\ emitterPc \in {"getSpooler", "deferSend"}
  /\ spoolerDaemon = "nil"
  /\ ~crashed
  /\ crashed'

\* First half of C19: the emitter never uses the daemon before Start() has
\* created it.
C19_DaemonCreatedBeforeUse == [][~EmitterUsesNilDaemon]_vars

\* Second half of C19: output.wg.Done() is called only when Start() has
\* called output.wg.Add(1) for the emitter and for the daemon.
C19_BarrierBeforeDone ==
  [][outputWg' < outputWg => startPc \in {"l208", "returned"}]_vars

\* C19 as stated: in every interleaving of Start() with Emit() and Stop() the
\* emitter uses the daemon only after Start() created it, and the output's
\* WaitGroup has been incremented for both goroutines before either calls
\* Done().
C19_StartOrdering ==
  [][/\ ~EmitterUsesNilDaemon
     /\ outputWg' < outputWg => startPc \in {"l208", "returned"}]_vars


\* Signals sent on the daemon's shutdownChan so far: buffered, or taken.
DaemonSignalsSent ==
  daemonChan + (IF daemonPc \in {"none", "wait"} THEN 0 ELSE 1)

\* C20: signal delivery never blocks the sender.  The emitter at its deferred
\* send can take that step at once, and with the daemon created the step is
\* the send into an empty channel; the daemon in the loop of its cleanup,
\* holding the registry lock, can at once take the step for every spooler it
\* has not passed yet, whatever that spooler is doing, and a spooler whose
\* flag is still idle has an empty channel; and no shutdown channel is sent
\* more than one signal or ever holds more than one.
C20_SendNeverBlocks ==
  /\ (emitterPc = "deferSend" /\ ~crashed) =>
       /\ ENABLED (~crashed /\ EmitterSignal)
       /\ spoolerDaemon = "daemon" => daemonChan = 0
  /\ (daemonPc = "range" /\ ~crashed) =>
       /\ spoolersMtx = "daemon"
       /\ \A s \in Registered \ visited :
            ENABLED (~crashed /\ DaemonSignal(s))
  /\ \A s \in SpoolerIds :
       /\ ~objs[s].isShuttingDown => objs[s].shutdownChan = 0
       /\ objs[s].shutdownChan <= 1
  /\ DaemonSignalsSent <= 1
  /\ DaemonSignalsSent = 1 <=> emitterPc \in {"deferDone", "done"}

\* C20 witness: the daemon, holding the registry lock in the loop of its
\* cleanup, has sent the signal to a spooler that is in the middle of an
\* upload, and has another spooler still to signal.
C20_Witness ==
  /\ daemonPc = "range"
  /\ spoolersMtx = "daemon"
  /\ Registered \ visited # {}
  /\ \E s \in visited :
       /\ objs[s].shutdownChan = 1
       /\ objs[s].pc = "flushing"
       /\ objs[s].handle.uploaded
       /\ ~objs[s].handle.returned

====
